---- MODULE Spec2Model ----
(***************************************************************************)
(* A model of FoMo's GPU regular-grid renderer                             *)
(* (src/fomo-c/src/fomo-gpu-regulargrid.cpp).                              *)
(*                                                                         *)
(* Spec      the renderer's public API (constructRegularGrid,              *)
(*           setRenderingSettings, renderToBuffer, renderToCube), the      *)
(*           internal render with its two command queues, and the device   *)
(*           that executes the queued commands asynchronously.             *)
(* GridSpec  the cell loop of constructRegularGrid, one step per cell,     *)
(*           under every order the parallel workers can run the cells in.  *)
(***************************************************************************)
EXTENDS Integers, Sequences, FiniteSets, TLC

\* ---------------------------------------------------------------- bounds
MaxX == 2
MaxY == 2
MaxLambda == 2
MaxChunk == 3
MaxAngle == 1
MaxCalls == 4
MaxGrid == 2
MaxCells == 8
MaxDistance == 2
NThreads == 2
MaxWork == 16
MaxList == 2
MaxExtent == 2
MaxCoord == 2
FloatBits == 6

\* "right now, 1 byte is used per pixel" (doc comment of renderToBuffer)
BytesPerPixel == 1

Channels == {0, 1}
\* The viewing angle pairs (l, b) a caller asks for.
Views == {<<0, MaxAngle>>, <<MaxAngle, 0>>}
\* The settings a caller asks for: the smallest and the largest of each.
XPixels == {1, MaxX}
YPixels == {1, MaxY}
LambdaPixels == {1, MaxLambda}
\* The chunk sizes the renderer is constructed with: the smallest and the largest.
ChunkSizes == {1, MaxChunk}
NoView == <<0 - 1, 0 - 1>>
Modes == {"IntegratedIntensity", "AllIntensities"}

VARIABLES
    \* fields of RegularGridRenderer
    hasRegularGrid, hasRenderingSettings, displayMode,
    x_pixel, y_pixel, lambda_pixel, chunk_size,
    kernels,        \* kernels[i]: the program it was built from and its arguments
    parameters,     \* the host-mapped parameter block
    \* the device: the two in-order command queues and the buffers' contents
    queues, dev, devOut,
    \* the host's position, and the locals of the running call
    pc, call, index, offset,
    \* what the callers own
    bytes, floats, cube,
    \* the cube last written to a file
    written,
    \* what the calls printed and counted
    diag, op, calls, compiles, gridVersion, frame,
    \* the device operation that reported an error, if one did
    failure,
    \* whether a write went through a coordinate axis the cube does not have
    stray,
    \* history of the running frame
    issued, reads, live, reconfigured, oob,
    \* the indeterminate content of freshly allocated memory
    junk,
    \* constructRegularGrid's cell loop: its inputs,
    cloud, bounds, tieBreak, gridx, gridy, gridz, max_distance, alias, num_threads,
    \* the mapped host memory it fills and its match counter,
    points, emissivity, counter,
    \* the loop's position: the next (i, j) iteration handed out, the k loops under way,
    g_pc, nextIter, running,
    \* and which cells wrote each location, what each cell's query was and gave
    pointWriters, emissivityWriters, queried,
    \* RenderWithGPURegularGrid: its arguments, its position in the two loops,
    \* what each renderToCube call did, and the cube it returns
    s_pc, lvec, bvec, outfile, s_pixels, lit, bit, s_calls, s_log, s_returned,
    s_bounds, s_maxdistance,
    \* a rotation there and back: the axis, the angle, the vector given, the vector
    \* rotated by the angle, that vector rotated by the opposite angle, and the position
    r_axis, r_angle, r_in, r_temp, r_out, r_pc

rendererVars == <<hasRegularGrid, hasRenderingSettings, displayMode,
                  x_pixel, y_pixel, lambda_pixel, chunk_size, kernels, parameters>>
deviceVars == <<queues, dev, devOut>>
hostVars == <<pc, call, index, offset>>
callerVars == <<bytes, floats, cube, written>>
logVars == <<diag, op, calls, compiles, gridVersion, frame>>
historyVars == <<issued, reads, live, reconfigured, oob>>
pipelineVars == <<rendererVars, deviceVars, hostVars, callerVars, logVars, historyVars, junk,
                  failure, stray>>
gridInputs == <<cloud, bounds, tieBreak, gridx, gridy, gridz, max_distance, alias, num_threads>>
sweepVars == <<s_pc, lvec, bvec, outfile, s_pixels, lit, bit, s_calls, s_log, s_returned,
               s_bounds, s_maxdistance>>
rotVars == <<r_axis, r_angle, r_in, r_temp, r_out, r_pc>>
gridVars == <<gridInputs, points, emissivity, counter, g_pc, nextIter, running,
              pointWriters, emissivityWriters, queried>>

\* ------------------------------------------------------------ diagnostics
DiagNone == ""
DiagSettingsBeforeGrid == "Cannot call setRenderingSettings before calling constructRegularGrid! Returning."
DiagRenderBeforeSettings == "Cannot call render before calling setRenderingSettings! Returning."
DiagRenderAllIntensities == "Cannot call render while in the AllIntensities display mode! Returning."
DiagNoPlatform == "Error: No OpenCL platforms found!"
DiagNoContext == "Error: Could not create OpenCL context!"
DiagNoDevice == "Error: No OpenCL devices found!"
DiagBuildFailed == "Error: Could not compile OpenCL program! Error code: "
DiagCubeBeforeSettings == "Cannot call renderToFile before calling setRenderingSettings! Returning."

\* ---------------------------------------------------------------- helpers
\* API calls explored: MaxCalls by a free caller, the calls of one sweep otherwise
CallBudget == IF s_pc = "none" THEN MaxCalls ELSE 2 + MaxList * MaxList

\* (mutant: the first of the two, whatever the second)
Former(a, b) == a

Min(a, b) == IF a < b THEN a ELSE b

pixels == x_pixel * y_pixel

\* A value of indeterminate content (new[], a fresh device buffer).
Junk == [src |-> "junk", g |-> 0, v |-> NoView, lam |-> 0, p |-> junk, e |-> 0]

Fill(n, x) == [i \in 1..n |-> x]

\* dst with src[1..n] copied to dst[off+1 .. off+n] (the copy loops of extractData);
\* positions past the end of dst are not part of dst.
CopyInto(dst, off, src, n) ==
    [i \in 1..Len(dst) |-> IF i > off /\ i <= off + n /\ i - off <= Len(src)
                           THEN src[i - off] ELSE dst[i]]

NoCommand == [op |-> "none", buf |-> "none", val |-> 0, chan |-> 0, k |-> 0,
              offset |-> 0, size |-> 0, kernel |-> 0]
NoKernel == [mode |-> "none", lambda |-> 0, input |-> "none", output |-> "none", outIdx |-> 0]
NoCall == [kind |-> "none", view |-> NoView, file |-> FALSE, ptr |-> FALSE, tmpDisplayMode |-> "none"]
NoCube == [view |-> NoView, axes |-> 0, grid |-> <<>>, data |-> <<>>]

\* ------------------------------------------------------------- the device
\* The value the ray kernel computes for global id p, output element e, from what
\* the device buffers hold when the kernel runs.
KernelValue(kernel, p, e) ==
    [src |-> kernel.input,
     g |-> IF kernel.input = "emissivity" THEN dev.emissivity ELSE dev.points,
     v |-> dev.params, lam |-> dev.lambdaval, p |-> p, e |-> e]

\* Elements per pixel of an output buffer of the given kind.
PerPixel(kind, lambda) == IF kind = "floats" THEN lambda ELSE BytesPerPixel

\* The output buffer after a kernel ran over global ids offset..offset+size-1:
\* work item offset+j writes the elements of the j-th pixel of the buffer.
KernelWrite(buffer, c) ==
    LET per == PerPixel(c.kernel.output, c.kernel.lambda)
    IN  [i \in 1..Len(buffer) |->
            IF i <= c.size * per
            THEN KernelValue(c.kernel, c.offset + ((i - 1) \div per), (i - 1) % per)
            ELSE buffer[i]]

\* The device runs the command at the head of in-order queue q.
DeviceStep(q) ==
    /\ queues[q] # <<>>
    /\ LET c == Head(queues[q])
       IN  /\ queues' = [queues EXCEPT ![q] = Tail(@)]
           /\ \/ /\ c.op = "write"
                 /\ dev' = [dev EXCEPT ![c.buf] = IF c.buf = "params" THEN parameters ELSE c.val]
                 /\ UNCHANGED <<devOut, live>>
              \/ /\ c.op = "kernel"
                 /\ devOut' = [devOut EXCEPT ![c.kernel.output][c.kernel.outIdx] = KernelWrite(@, c)]
                 /\ UNCHANGED <<dev, live>>
    /\ UNCHANGED <<rendererVars, hostVars, callerVars, logVars, issued, reads, reconfigured, oob, junk, failure, stray, gridVars, sweepVars, rotVars>>

WriteCommand(buf, val) == [NoCommand EXCEPT !.op = "write", !.buf = buf, !.val = val]

\* (mutant: the host never waits for a queue)
QueueNeverWaited(q) == TRUE

\* cl::CommandQueue::finish and a blocking read return once every command queued
\* before them on that queue has run.
QueueDrained(q) == queues[q] = <<>>

\* ------------------------------------------------------ setDisplayMode
\* The kernels of a program built for `mode`, with their arguments set.
\* (mutant: the byte output buffers are bound whatever the mode)
BoundToBytes(mode, lambda) ==
    [i \in Channels |->
        [mode |-> mode, lambda |-> lambda,
         input |-> IF mode = "IntegratedIntensity" THEN "emissivity" ELSE "points",
         output |-> "bytes",
         outIdx |-> i]]

BoundKernels(mode, lambda) ==
    [i \in Channels |->
        [mode |-> mode, lambda |-> lambda,
         input |-> IF mode = "IntegratedIntensity" THEN "emissivity" ELSE "points",
         output |-> IF mode = "AllIntensities" THEN "floats" ELSE "bytes",
         outIdx |-> i]]

\* (a build that fails, yet lets the call carry on without a program)
Fallback(what) == pc' = "idle" /\ failure' = what /\ diag' = DiagNone

\* Lines 503-507: the build failed; the log is printed and the process exits.
BuildFails(what) == pc' = "exited" /\ failure' = what /\ diag' = DiagBuildFailed

\* (lambda is this->lambda_pixel as stored when the program is built)
setDisplayMode(mode, lambda) ==
    /\ displayMode' = mode
    /\ compiles' = compiles + 1
    /\ kernels' = BoundKernels(mode, lambda)

\* ------------------------------------------------- constructRegularGrid
\* (mutant: constructRegularGrid leaves hasRenderingSettings alone)
SettingsKeptAfterGrid == hasRenderingSettings

\* What constructRegularGrid leaves in hasRenderingSettings.
SettingsAfterGrid == FALSE

\* Lines 178-204: flags, fresh point and emissivity buffers, queues[0].finish().
ConstructRegularGrid_Begin ==
    /\ pc = "idle" /\ calls < CallBudget
    /\ hasRegularGrid' = TRUE
    /\ hasRenderingSettings' = SettingsAfterGrid
    /\ gridVersion' = gridVersion + 1
    /\ dev' = [dev EXCEPT !.points = 0, !.emissivity = 0]
    /\ pc' = "grid_finish"
    /\ op' = "constructRegularGrid" /\ diag' = DiagNone /\ calls' = calls + 1
    /\ reconfigured' = FALSE
    \* the caller keeps no frame of the grid it replaces
    /\ bytes' = <<>> /\ cube' = NoCube /\ written' = written
    /\ UNCHANGED <<displayMode, x_pixel, y_pixel, lambda_pixel, chunk_size, kernels, parameters,
                   queues, devOut, call, index, offset, floats, compiles, frame,
                   issued, reads, live, oob, junk, failure, stray, gridVars, sweepVars, rotVars>>

\* Lines 204-272: once queue 0 is idle the cells are filled on the host and the two
\* non-blocking uploads are queued.
ConstructRegularGrid_Fill ==
    /\ pc = "grid_finish" /\ QueueDrained(0)
    /\ queues' = [queues EXCEPT ![0] = @ \o <<WriteCommand("points", gridVersion),
                                              WriteCommand("emissivity", gridVersion)>>]
    /\ pc' = "idle"
    /\ UNCHANGED <<rendererVars, dev, devOut, call, index, offset, callerVars, logVars,
                   historyVars, junk, failure, stray, gridVars, sweepVars, rotVars>>

\* Lines 270-271 when enqueueWriteBuffer reports an error for one upload or for
\* both: the return value is dropped, and the call goes on and returns.
ConstructRegularGrid_Fill_WriteFails ==
    /\ pc = "grid_finish" /\ QueueDrained(0)
    /\ \E sent \in {<<>>, <<WriteCommand("points", gridVersion)>>,
                     <<WriteCommand("emissivity", gridVersion)>>} :
          queues' = [queues EXCEPT ![0] = @ \o sent]
    /\ failure' = "write"
    /\ pc' = "idle"
    /\ UNCHANGED <<rendererVars, dev, devOut, call, index, offset, callerVars, logVars,
                   historyVars, junk, stray, gridVars, sweepVars, rotVars>>

\* ------------------------------------------------- setRenderingSettings
\* (mutant: no check of hasRegularGrid)
SettingsNeverRefused == FALSE

\* The guard of lines 292-295.
SettingsRefused == ~hasRegularGrid

\* (mutant: room for the samples of one pixel)
OnePixelAmount(x, y, lambda) == lambda

\* Capacity of each output buffer, in pixels times samples (line 313).
OutputAmount(x, y, lambda) == Min(chunk_size, x * y) * lambda

SetRenderingSettings(x, y, lambda, mode) ==
    /\ pc = "idle" /\ calls < CallBudget
    /\ op' = "setRenderingSettings" /\ calls' = calls + 1
    /\ \/ /\ SettingsRefused
          /\ diag' = DiagSettingsBeforeGrid
          /\ UNCHANGED <<rendererVars, deviceVars, compiles, reconfigured>>
       \/ /\ ~SettingsRefused
          /\ diag' = DiagNone
          /\ hasRenderingSettings' = TRUE
          /\ x_pixel' = x /\ y_pixel' = y /\ lambda_pixel' = lambda
          /\ devOut' = [kind \in {"bytes", "floats"} |-> [i \in Channels |->
                           Fill((IF kind = "bytes" THEN BytesPerPixel ELSE 1)
                                * OutputAmount(x, y, lambda), Junk)]]
          /\ dev' = [dev EXCEPT !.lambdaval = 0]
          /\ queues' = [queues EXCEPT ![0] = Append(@, WriteCommand("lambdaval", lambda))]
          /\ setDisplayMode(mode, lambda)
          /\ reconfigured' = TRUE
          /\ UNCHANGED <<hasRegularGrid, chunk_size, parameters>>
    /\ UNCHANGED <<hostVars, callerVars, gridVersion, frame, issued, reads, live, oob, junk, failure, stray, gridVars, sweepVars, rotVars>>

\* setRenderingSettings when the build of line 502 fails.
SetRenderingSettings_BuildFails(x, y, lambda, mode) ==
    /\ pc = "idle" /\ calls < CallBudget
    /\ ~SettingsRefused
    /\ op' = "setRenderingSettings" /\ calls' = calls + 1
    /\ hasRenderingSettings' = TRUE
    /\ x_pixel' = x /\ y_pixel' = y /\ lambda_pixel' = lambda
    /\ devOut' = [kind \in {"bytes", "floats"} |-> [i \in Channels |->
                     Fill((IF kind = "bytes" THEN BytesPerPixel ELSE 1)
                          * OutputAmount(x, y, lambda), Junk)]]
    /\ dev' = [dev EXCEPT !.lambdaval = 0]
    /\ queues' = [queues EXCEPT ![0] = Append(@, WriteCommand("lambdaval", lambda))]
    /\ displayMode' = mode
    /\ BuildFails("build")
    /\ UNCHANGED <<hasRegularGrid, chunk_size, parameters, kernels, compiles, reconfigured,
                   call, index, offset, callerVars, gridVersion, frame, issued, reads, live,
                   oob, junk, stray, gridVars, sweepVars, rotVars>>

\* --------------------------------------------------------------- render
\* Line 647: the kernel of channel i is queued on queue i.
enqueueKernel(i, off, size) ==
    /\ queues' = [queues EXCEPT ![i] = Append(@,
            [NoCommand EXCEPT !.op = "kernel", !.chan = i, !.k = Len(issued),
                              !.offset = off, !.size = size, !.kernel = kernels[i]])]
    /\ issued' = Append(issued, [k |-> Len(issued), chan |-> i, offset |-> off, size |-> size])
    /\ live' = live \cup {[frame |-> frame, k |-> Len(issued), chan |-> i]}

\* Lines 654-674: the blocking read of channel i's output buffer of the kind the
\* display mode selects, then the copy into the caller's buffer.
extractData(i, pixels_in_job, off) ==
    LET kind == IF displayMode = "AllIntensities" THEN "floats" ELSE "bytes"
        per == PerPixel(kind, lambda_pixel)
        src == devOut[kind][i]
        dst == IF kind = "floats" THEN floats ELSE bytes
    IN  /\ IF kind = "floats"
           THEN floats' = CopyInto(floats, off * per, src, pixels_in_job * per) /\ bytes' = bytes
           ELSE bytes' = CopyInto(bytes, off * per, src, pixels_in_job * per) /\ floats' = floats
        /\ oob' = (oob \/ (off + pixels_in_job) * per > Len(dst)
                       \/ pixels_in_job * per > Len(src))
        /\ reads' = Append(reads, [chan |-> i, offset |-> off, n |-> pixels_in_job])
        /\ live' = {c \in live : c.chan # i}

\* (mutant: the loop queues the channel it is about to read)
SameChannel(i) == i

\* The channel the loop queues while the one at `index` is read back (line 575).
OtherChannel(i) == 1 - i

\* (mutant: the last readback is copied to the start of the frame)
FirstJobOffset == 0 * chunk_size

\* The size and offset the last readback is given (line 581).
LastJobPixels == pixels % chunk_size
LastJobOffset == (pixels \div chunk_size) * chunk_size

\* Lines 562-566: the frame's rotation and pixel pitch go into the parameter block,
\* and its upload is queued on queue 0.
Render_WriteParameters ==
    /\ pc = "r_params"
    /\ parameters' = call.view
    /\ queues' = [queues EXCEPT ![0] = Append(@, WriteCommand("params", 0))]
    /\ pc' = "r_start"
    /\ UNCHANGED <<hasRegularGrid, hasRenderingSettings, displayMode, x_pixel, y_pixel,
                   lambda_pixel, chunk_size, kernels, dev, devOut, call, index, offset,
                   callerVars, logVars, historyVars, junk, failure, stray, gridVars, sweepVars, rotVars>>

\* Line 566 when enqueueWriteBuffer reports an error: the return value is dropped
\* and render goes on with the parameter block the device already holds.
Render_WriteParameters_WriteFails ==
    /\ pc = "r_params"
    /\ parameters' = call.view
    /\ failure' = "write"
    /\ pc' = "r_start"
    /\ UNCHANGED <<hasRegularGrid, hasRenderingSettings, displayMode, x_pixel, y_pixel,
                   lambda_pixel, chunk_size, kernels, deviceVars, call, index, offset,
                   callerVars, logVars, historyVars, junk, stray, gridVars, sweepVars, rotVars>>

\* Lines 569-573: both queues finish, then chunk 0 is queued on channel 0.
Render_Start ==
    /\ pc = "r_start" /\ QueueDrained(0) /\ QueueDrained(1)
    /\ index' = 0
    /\ enqueueKernel(0, 0, Min(chunk_size, pixels))
    /\ offset' = chunk_size
    /\ pc' = IF chunk_size < pixels THEN "r_loop" ELSE "r_last"
    /\ UNCHANGED <<rendererVars, dev, devOut, call, callerVars, logVars, reads,
                   reconfigured, oob, junk, failure, stray, gridVars, sweepVars, rotVars>>

\* (mutant: the loop reads chunk k-1 back before it queues chunk k)
Render_LoopEnqueue_Skipped ==
    /\ pc = "r_loop"
    /\ pc' = "r_extract"
    /\ UNCHANGED <<rendererVars, deviceVars, call, index, offset, callerVars, logVars,
                   historyVars, junk, failure, stray, gridVars, sweepVars, rotVars>>

\* Line 575: the next chunk goes to the other channel.
Render_LoopEnqueue ==
    /\ pc = "r_loop"
    /\ enqueueKernel(OtherChannel(index), offset, Min(chunk_size, pixels - offset))
    /\ pc' = "r_extract"
    /\ UNCHANGED <<rendererVars, dev, devOut, call, index, offset, callerVars, logVars,
                   reads, reconfigured, oob, junk, failure, stray, gridVars, sweepVars, rotVars>>

\* (mutant: the loop makes no progress: nothing is read, offset and index stay)
Render_LoopExtract_NoProgress ==
    /\ pc = "r_extract"
    /\ UNCHANGED <<pipelineVars, gridVars, sweepVars, rotVars>>

\* Lines 577-578 and the loop's step and test.
Render_LoopExtract ==
    /\ pc = "r_extract" /\ QueueDrained(index)
    /\ extractData(index, chunk_size, offset - chunk_size)
    /\ index' = 1 - index
    /\ offset' = offset + chunk_size
    /\ pc' = IF offset + chunk_size < pixels THEN "r_loop" ELSE "r_last"
    /\ UNCHANGED <<rendererVars, deviceVars, call, cube, written, logVars, issued, reconfigured, junk, failure, stray, gridVars, sweepVars, rotVars>>

\* Line 581.
Render_LastExtract ==
    /\ pc = "r_last" /\ QueueDrained(index)
    /\ extractData(index, LastJobPixels, LastJobOffset)
    /\ pc' = "r_done"
    /\ UNCHANGED <<rendererVars, deviceVars, call, index, offset, cube, written, logVars, issued,
                   reconfigured, junk, failure, stray, gridVars, sweepVars, rotVars>>

\* enqueueNDRangeKernel or enqueueReadBuffer reports an error: exit(1).
DeviceOperationFails ==
    /\ pc \in {"r_start", "r_loop", "r_extract", "r_last"}
    /\ failure' = IF pc \in {"r_start", "r_loop"} THEN "kernel" ELSE "read"
    /\ pc' = "exited"
    /\ UNCHANGED <<rendererVars, deviceVars, call, index, offset, callerVars, logVars,
                   historyVars, junk, stray, gridVars, sweepVars, rotVars>>

\* ------------------------------------------------------- renderToBuffer
\* (mutant: no check of hasRenderingSettings)
RenderNeverRefused == FALSE

\* The guards of lines 351 and 382.
RenderRefused == ~hasRenderingSettings

\* The caller's buffer "of appropriate size": the one of the previous frame when it
\* fits the settings, else a fresh one.
CallerBuffer(n) == IF Len(bytes) = n THEN bytes ELSE Fill(n, Junk)

\* (mutant: no check of the display mode)
AnyMode == TRUE

\* The guard of line 355: a screen display mode, so not AllIntensities.
ScreenMode == displayMode # "AllIntensities"

RenderToBuffer(view) ==
    /\ pc = "idle" /\ calls < CallBudget
    /\ op' = "renderToBuffer" /\ calls' = calls + 1
    /\ \/ /\ RenderRefused
          /\ diag' = DiagRenderBeforeSettings
          /\ UNCHANGED <<hostVars, bytes, frame, issued, reads>>
       \/ /\ ~RenderRefused
          /\ ~ScreenMode
          /\ diag' = DiagRenderAllIntensities
          /\ UNCHANGED <<hostVars, bytes, frame, issued, reads>>
       \/ /\ ~RenderRefused
          /\ ScreenMode
          /\ diag' = DiagNone
          /\ call' = [NoCall EXCEPT !.kind = "buffer", !.view = view]
          /\ bytes' = CallerBuffer(pixels * BytesPerPixel)
          /\ frame' = frame + 1
          /\ issued' = <<>> /\ reads' = <<>>
          /\ pc' = "r_params"
          /\ UNCHANGED <<index, offset>>
    /\ UNCHANGED <<rendererVars, deviceVars, floats, cube, written, compiles, gridVersion,
                   live, reconfigured, oob, junk, failure, stray, gridVars, sweepVars, rotVars>>

RenderToBuffer_Return ==
    /\ pc = "r_done" /\ call.kind = "buffer"
    /\ pc' = "idle"
    /\ issued' = <<>> /\ reads' = <<>>
    /\ UNCHANGED <<rendererVars, deviceVars, call, index, offset, callerVars, logVars,
                   live, reconfigured, oob, junk, failure, stray, gridVars, sweepVars, rotVars>>

\* --------------------------------------------------------- renderToCube
\* Lines 376-396: up to the call of render.
RenderToCube(view, file, ptr) ==
    /\ pc = "idle" /\ calls < CallBudget
    /\ op' = "renderToCube" /\ calls' = calls + 1
    /\ \/ /\ ~file /\ ~ptr
          /\ diag' = DiagNone
          /\ call' = [NoCall EXCEPT !.kind = "skipped", !.view = view]
          /\ UNCHANGED <<displayMode, compiles, kernels, pc, index, offset, floats, frame,
                         issued, reads>>
       \/ /\ file \/ ptr
          /\ RenderRefused
          /\ diag' = DiagCubeBeforeSettings
          /\ call' = [NoCall EXCEPT !.kind = "refused", !.view = view, !.file = file, !.ptr = ptr]
          /\ UNCHANGED <<displayMode, compiles, kernels, pc, index, offset, floats, frame,
                         issued, reads>>
       \/ /\ file \/ ptr
          /\ ~RenderRefused
          /\ diag' = DiagNone
          /\ call' = [kind |-> "cube", view |-> view, file |-> file, ptr |-> ptr,
                      tmpDisplayMode |-> displayMode]
          /\ IF displayMode # "AllIntensities"
             THEN setDisplayMode("AllIntensities", lambda_pixel)
             ELSE UNCHANGED <<displayMode, compiles, kernels>>
          /\ floats' = Fill(pixels * lambda_pixel, Junk)
          /\ frame' = frame + 1
          /\ issued' = <<>> /\ reads' = <<>>
          /\ pc' = "r_params"
          /\ UNCHANGED <<index, offset>>
    /\ UNCHANGED <<hasRegularGrid, hasRenderingSettings, x_pixel, y_pixel, lambda_pixel,
                   chunk_size, parameters, deviceVars, bytes, cube, written, gridVersion,
                   live, reconfigured, oob, junk, failure, stray, gridVars, sweepVars, rotVars>>

\* Lines 430-441: the three nested loops, y outermost, that give each sample its
\* coordinates; xs[x], ys[y] and lambdas[l] are written x, y and l. The cube has
\* a wavelength axis only when lambda_pixel > 1 (lines 405-408).
NoAxis == 0 - 1
Coordinates(x, y, l) == [x |-> x, y |-> y, lambda |-> IF lambda_pixel > 1 THEN l ELSE NoAxis]
RECURSIVE LoopL(_, _, _)
LoopL(y, x, l) ==
    IF l >= lambda_pixel THEN <<>> ELSE <<Coordinates(x, y, l)>> \o LoopL(y, x, l + 1)
RECURSIVE LoopX(_, _)
LoopX(y, x) == IF x >= x_pixel THEN <<>> ELSE LoopL(y, x, 0) \o LoopX(y, x + 1)
RECURSIVE LoopY(_)
LoopY(y) == IF y >= y_pixel THEN <<>> ELSE LoopX(y, 0) \o LoopY(y + 1)
newgrid == LoopY(0)

\* Line 436 writes newgrid[2][index] whatever lambda_pixel is.
AbsentAxisWritten == lambda_pixel = 1

\* Lines 399-454: the cube assembled from the frame buffer.
renderCube ==
    [view |-> call.view, axes |-> IF lambda_pixel > 1 THEN 3 ELSE 2,
     grid |-> newgrid, data |-> floats]

\* (mutant: no file is written)
NeverWrites == FALSE

\* Line 457: a file is written when a file name was given.
WritesFile == call.file

\* (mutant: the mode of the frame is kept)
RenderedMode == "AllIntensities"

\* Lines 388, 470-471: the mode saved on entry is the one set again.
RestoredMode == call.tmpDisplayMode

\* Lines 399-471: the cube is assembled from the frame buffer, stored, the frame
\* buffer is freed and the display mode is switched back.
RenderToCube_Finish ==
    /\ pc = "r_done" /\ call.kind = "cube"
    /\ written' = IF WritesFile THEN renderCube ELSE written
    /\ cube' = IF call.ptr THEN renderCube ELSE cube
    /\ stray' = (stray \/ AbsentAxisWritten)
    /\ floats' = <<>>
    /\ IF RestoredMode # "AllIntensities"
       THEN setDisplayMode(RestoredMode, lambda_pixel)
       ELSE UNCHANGED <<displayMode, compiles, kernels>>
    /\ pc' = "idle"
    /\ issued' = <<>> /\ reads' = <<>>
    /\ UNCHANGED <<hasRegularGrid, hasRenderingSettings, x_pixel, y_pixel, lambda_pixel,
                   chunk_size, parameters, deviceVars, call, index, offset, bytes,
                   diag, op, calls, gridVersion, frame, live, reconfigured, oob, junk, failure,
                   gridVars, sweepVars, rotVars>>

\* Line 436 for lambda_pixel = 1, when the write through the absent third axis
\* ends the process.
RenderToCube_Finish_Crashes ==
    /\ pc = "r_done" /\ call.kind = "cube"
    /\ AbsentAxisWritten
    /\ stray' = TRUE
    /\ pc' = "crashed"
    /\ UNCHANGED <<rendererVars, deviceVars, call, index, offset, callerVars, logVars,
                   historyVars, junk, failure, gridVars, sweepVars, rotVars>>

\* renderToCube when the build for AllIntensities (line 390) fails.
RenderToCube_BuildFails(view, file, ptr) ==
    /\ pc = "idle" /\ calls < CallBudget
    /\ file \/ ptr
    /\ ~RenderRefused
    /\ displayMode # "AllIntensities"
    /\ op' = "renderToCube" /\ calls' = calls + 1
    /\ call' = [kind |-> "cube", view |-> view, file |-> file, ptr |-> ptr,
                tmpDisplayMode |-> displayMode]
    /\ displayMode' = "AllIntensities"
    /\ BuildFails("build")
    /\ UNCHANGED <<hasRegularGrid, hasRenderingSettings, x_pixel, y_pixel, lambda_pixel,
                   chunk_size, kernels, parameters, deviceVars, index, offset, callerVars,
                   compiles, gridVersion, frame, historyVars, junk, stray, gridVars, sweepVars, rotVars>>

\* renderToCube when the build that restores the caller's mode (line 471) fails:
\* the cube has been stored by then.
RenderToCube_Finish_BuildFails ==
    /\ pc = "r_done" /\ call.kind = "cube"
    /\ call.tmpDisplayMode # "AllIntensities"
    /\ written' = IF WritesFile THEN renderCube ELSE written
    /\ cube' = IF call.ptr THEN renderCube ELSE cube
    /\ stray' = (stray \/ AbsentAxisWritten)
    /\ floats' = <<>>
    /\ displayMode' = call.tmpDisplayMode
    /\ BuildFails("build")
    /\ UNCHANGED <<hasRegularGrid, hasRenderingSettings, x_pixel, y_pixel, lambda_pixel,
                   chunk_size, kernels, parameters, deviceVars, call, index, offset, bytes,
                   op, calls, compiles, gridVersion, frame, historyVars, junk, gridVars,
                   sweepVars, rotVars>>

\* -------------------------------------------------------- specification
\* The flags as the class declares them (the Uninitialized state).
InitialFlag == FALSE

\* The members as the constructor sets them, for a chunk size c.
Members(c, j) ==
    /\ hasRegularGrid = InitialFlag /\ hasRenderingSettings = InitialFlag
    /\ displayMode = "none"
    /\ x_pixel = 0 /\ y_pixel = 0 /\ lambda_pixel = 0
    /\ chunk_size = c
    /\ kernels = [i \in Channels |-> NoKernel]
    /\ parameters = NoView
    /\ queues = [i \in Channels |-> <<>>]
    /\ dev = [points |-> 0, emissivity |-> 0, lambdaval |-> 0, params |-> NoView]
    /\ devOut = [kind \in {"bytes", "floats"} |-> [i \in Channels |-> <<>>]]
    /\ call = NoCall /\ index = 0 /\ offset = 0
    /\ bytes = <<>> /\ floats = <<>> /\ cube = NoCube /\ written = NoCube
    /\ stray = FALSE
    /\ op = "none" /\ calls = 0 /\ compiles = 0
    /\ gridVersion = 0 /\ frame = 0
    /\ issued = <<>> /\ reads = <<>> /\ live = {} /\ reconfigured = FALSE /\ oob = FALSE
    /\ junk = j

\* The renderer as its constructor leaves it, for a chunk size c.
Constructed(c, j) ==
    /\ Members(c, j)
    /\ pc = "idle" /\ diag = DiagNone /\ failure = "none"

\* Lines 83-101: no platform, no context or no device; the constructor prints the
\* diagnostic and exits.
DiscoveryDiag == [platform |-> DiagNoPlatform, context |-> DiagNoContext, device |-> DiagNoDevice]
ConstructorExits ==
    /\ Members(1, 0)
    /\ pc = "exited"
    /\ \E f \in DOMAIN DiscoveryDiag : failure = f /\ diag = DiscoveryDiag[f]

Next ==
    \/ ConstructRegularGrid_Begin
    \/ ConstructRegularGrid_Fill
    \/ \E x \in XPixels, y \in YPixels, lambda \in LambdaPixels, mode \in Modes :
          SetRenderingSettings(x, y, lambda, mode)
    \/ \E view \in Views : RenderToBuffer(view)
    \/ RenderToBuffer_Return
    \/ \E view \in Views, file \in BOOLEAN, ptr \in BOOLEAN : RenderToCube(view, file, ptr)
    \/ RenderToCube_Finish
    \/ RenderToCube_Finish_Crashes
    \/ Render_WriteParameters
    \/ Render_Start
    \/ Render_LoopEnqueue
    \/ Render_LoopExtract
    \/ Render_LastExtract
    \/ DeviceOperationFails
    \/ \E q \in Channels : DeviceStep(q)

\* ======================================================== grid construction
\* constructRegularGrid's cell loop, float by float.  Coordinates are exact
\* fractions (the rounding of float arithmetic is not modelled), a float value
\* is m * 1e8^s * 1.064467019^g, and the source cube has three dimensions.
Num(s, g, m) == [tag |-> "num", s |-> IF m = 0 THEN 0 ELSE s, g |-> IF m = 0 THEN 0 ELSE g, m |-> m]
Uninitialized == [tag |-> "junk", s |-> 0, g |-> 0, m |-> 0]
Zero == Num(0, 0, 0)
One == Num(0, 0, 1)
Abs(a) == IF a < 0 THEN 0 - a ELSE a

\* The data points of the source cube: position and the five physical variables.
SourcePoint(x, y, z, peak, fwhm, v) ==
    [x |-> x, y |-> y, z |-> z, peak |-> peak, fwhm |-> fwhm, vx |-> v, vy |-> 0 - v, vz |-> 1]
\* eight points on the corners of the unit cube, intensities 0..7
CubeCloud ==
    [n \in 1..8 |-> SourcePoint((n - 1) % 2, ((n - 1) \div 2) % 2, (n - 1) \div 4,
                                n - 1, 1 + ((n - 1) % 2), n)]
\* three points, two of them equally far from the corner (0, 0, 0)
TieCloud ==
    <<SourcePoint(1, 0, 0, 3, 1, 1), SourcePoint(0, 1, 0, 5, 2, 2), SourcePoint(2, 2, 2, 7, 1, 3)>>
\* the same corners with the intensities in the opposite order
CubeCloudReversed ==
    [n \in 1..8 |-> SourcePoint((n - 1) % 2, ((n - 1) \div 2) % 2, (n - 1) \div 4,
                                8 - n, 1 + ((n - 1) % 2), n)]
Clouds == {CubeCloud, CubeCloudReversed, TieCloud}
\* the resolutions tried: up to MaxGrid along an axis, MaxCells cells in all
GridShapes ==
    {g \in (1..MaxGrid) \X (1..MaxGrid) \X (1..MaxGrid) : g[1] * g[2] * g[3] <= MaxCells}
DistanceBounds ==
    {[x |-> d, y |-> d, z |-> d] : d \in 1..MaxDistance}
        \cup {[x |-> 1, y |-> MaxDistance, z |-> MaxDistance]}

\* The bounds the constructor computes from the cloud and keeps.
AxisMin(pts, a) == CHOOSE v \in {pts[n][a] : n \in DOMAIN pts} : \A n \in DOMAIN pts : v <= pts[n][a]
AxisMax(pts, a) == CHOOSE v \in {pts[n][a] : n \in DOMAIN pts} : \A n \in DOMAIN pts : v >= pts[n][a]
Bounds(pts) ==
    [minx |-> AxisMin(pts, "x"), maxx |-> AxisMax(pts, "x"),
     miny |-> AxisMin(pts, "y"), maxy |-> AxisMax(pts, "y"),
     minz |-> AxisMin(pts, "z"), maxz |-> AxisMax(pts, "z")]
minx == bounds.minx
maxx == bounds.maxx
miny == bounds.miny
maxy == bounds.maxy
minz == bounds.minz
maxz == bounds.maxz

input_size == gridx * gridy * gridz
Cells == 0..(input_size - 1)
CellIndex(i, j, k) == i * gridx * gridz + j * gridz + k

\* A coordinate is the fraction num/den, or NaN where the code divides 0 by 0.
Fraction(num, den) == [nan |-> FALSE, num |-> num, den |-> den]
NaN == [nan |-> TRUE, num |-> 0, den |-> 1]
\* a non-zero number divided by 0
Infinity == [nan |-> FALSE, num |-> 1, den |-> 0]
\* (the samples spaced hi - lo over n instead of over n - 1)
SampleOverN(j, n, lo, hi) == Fraction(j * (hi - lo) + lo * n, n)
\* x and y: double(j)/(gridx - 1)*(maxx - minx) + minx
Sample(j, n, lo, hi) ==
    IF n = 1 THEN NaN ELSE Fraction(j * (hi - lo) + lo * (n - 1), n - 1)
\* z: deltaz is divided by gridz - 1 only when gridz is not 1
SampleZ(k) ==
    IF gridz # 1 THEN Fraction(k * (maxz - minz) + minz * (gridz - 1), gridz - 1)
    ELSE Fraction(k * (maxz - minz) + minz, 1)
\* The extents the renderer stores: (maxx - minx)*float(gridx)/float(gridx - 1),
\* and for z the value 1 when gridz is 1.
Extent(n, lo, hi) ==
    IF n = 1 THEN (IF hi = lo THEN NaN ELSE Infinity) ELSE Fraction((hi - lo) * n, n - 1)
grid_size_x == Extent(gridx, minx, maxx)
grid_size_y == Extent(gridy, miny, maxy)
grid_size_z == IF gridz = 1 THEN Fraction(1, 1) ELSE Fraction((maxz - minz) * gridz, gridz - 1)
TargetPoint(i, j, k) ==
    [x |-> Sample(j, gridx, minx, maxx), y |-> Sample(i, gridy, miny, maxy), z |-> SampleZ(k)]

\* |p - t| < d, as within() tests it: strictly inside, and false against a NaN
StrictlyWithin(p, t, d) ==
    /\ ~t.nan
    /\ Abs(p * t.den - t.num) < d * t.den
InBox(n, t) ==
    \A a \in {"x", "y", "z"} : StrictlyWithin(cloud[n][a], t[a], max_distance[a])
\* the squared distance, over the common denominator of the three coordinates
Scaled(p, t, others) == (p * t.den - t.num) * others
Distance2(n, t) ==
    Scaled(cloud[n].x, t.x, t.y.den * t.z.den) * Scaled(cloud[n].x, t.x, t.y.den * t.z.den)
        + Scaled(cloud[n].y, t.y, t.x.den * t.z.den) * Scaled(cloud[n].y, t.y, t.x.den * t.z.den)
        + Scaled(cloud[n].z, t.z, t.x.den * t.y.den) * Scaled(cloud[n].z, t.z, t.x.den * t.y.den)
\* nearest(targetPoint, 1) && within(maxdistancebox): 0 when nothing is returned.
\* Which of several equally near points the index returns is its own affair.
Nearest(t) ==
    LET inside == {n \in DOMAIN cloud : InBox(n, t)}
        d2 == [n \in inside |-> Distance2(n, t)]
        best == {n \in inside : \A o \in inside : d2[n] <= d2[o]}
    IN  IF inside = {} THEN 0
        ELSE IF tieBreak = "first" THEN CHOOSE n \in best : \A o \in best : n <= o
        ELSE CHOOSE n \in best : \A o \in best : n >= o

\* What one iteration stores for a cell.
PointRecord(n) ==
    IF n # 0
    THEN <<Num(1, 0, cloud[n].peak), Num(0, 0, cloud[n].fwhm), Num(0, 0, cloud[n].vx),
           Num(0, 0, cloud[n].vy), Num(0, 0, cloud[n].vz), Zero, Zero, Zero>>
    ELSE <<Zero, One, Zero, Zero, Zero, Zero, Zero, Zero>>
Emissivity(n) ==
    IF n # 0 THEN Num(1, 1, cloud[n].peak * cloud[n].fwhm) ELSE Zero

\* points[c] = {...}: the eight floats of record c.
StorePoint(mem, c, rec) ==
    [f \in DOMAIN mem |-> IF f > 8 * c /\ f <= 8 * c + 8 THEN rec[f - 8 * c] ELSE mem[f]]
StoreFloat(mem, c, v) == [mem EXCEPT ![c + 1] = v]
Mark(w, fs, c) == [f \in DOMAIN w |-> IF f \in fs THEN [by |-> w[f].by \cup {c}, n |-> w[f].n + 1] ELSE w[f]]
RecordFloats(c) == (8 * c + 1)..(8 * c + 8)
\* Where the pointer `emissivity` points: it maps cl_buffer_points a second
\* time, so it is either the address `points` already has or a region of its own.
EmissivityAliasesPoints == alias

\* what a worker is doing: cell (i, j, k), before or after its query
Pass(i, j, k) == [i |-> i, j |-> j, k |-> k, phase |-> "query", nearestindex |-> 0, loaded |-> 0]
NotQueried == [asked |-> FALSE, t |-> [x |-> NaN, y |-> NaN, z |-> NaN], n |-> 0]

\* schedule(dynamic) collapse(2): a free worker takes the next (i, j) and
\* runs its k loop.  Workers are told apart only by what they run.
Grid_TakeIteration ==
    /\ g_pc = "cells" /\ Cardinality(running) < num_threads /\ nextIter < gridy * gridx
    /\ running' = running \cup {Pass(nextIter \div gridx, nextIter % gridx, 0)}
    /\ nextIter' = nextIter + 1
    /\ UNCHANGED <<pipelineVars, sweepVars, rotVars, gridInputs, points, emissivity, counter, g_pc,
                   pointWriters, emissivityWriters, queried>>

\* One pass of the k loop, first half: the query, and for a match the read
\* of the shared counter that `counter++` starts with.
Grid_Query(w) ==
    /\ g_pc = "cells" /\ w.phase = "query"
    /\ LET t == TargetPoint(w.i, w.j, w.k)
           n == Nearest(t)
       IN  /\ running' = (running \ {w})
                            \cup {[w EXCEPT !.phase = "store", !.nearestindex = n,
                                            !.loaded = IF n # 0 THEN counter ELSE 0]}
           /\ queried' = [queried EXCEPT ![CellIndex(w.i, w.j, w.k) + 1] =
                                            [asked |-> TRUE, t |-> t, n |-> n]]
    /\ UNCHANGED <<pipelineVars, sweepVars, rotVars, gridInputs, points, emissivity, counter, g_pc, nextIter,
                   pointWriters, emissivityWriters>>

\* Second half: the write that ends `counter++`, then the two stores.
Grid_Cell(w) ==
    /\ g_pc = "cells" /\ w.phase = "store"
    /\ LET c == CellIndex(w.i, w.j, w.k)
           n == w.nearestindex
           stored == StorePoint(points, c, PointRecord(n))
           marked == Mark(pointWriters, RecordFloats(c), c)
       IN  /\ counter' = IF n # 0 THEN w.loaded + 1 ELSE counter
           /\ IF EmissivityAliasesPoints
              THEN /\ points' = StoreFloat(stored, c, Emissivity(n))
                   /\ pointWriters' = Mark(marked, {c + 1}, c)
                   /\ UNCHANGED <<emissivity, emissivityWriters>>
              ELSE /\ points' = stored
                   /\ pointWriters' = marked
                   /\ emissivity' = StoreFloat(emissivity, c, Emissivity(n))
                   /\ emissivityWriters' = Mark(emissivityWriters, {c + 1}, c)
           /\ running' = (running \ {w})
                            \cup (IF w.k + 1 < gridz THEN {Pass(w.i, w.j, w.k + 1)} ELSE {})
    /\ UNCHANGED <<pipelineVars, sweepVars, rotVars, gridInputs, g_pc, nextIter, queried>>

\* The end of the parallel loop; the two buffers are then uploaded.
Grid_Finish ==
    /\ g_pc = "cells" /\ nextIter = gridy * gridx
    /\ running = {}
    /\ g_pc' = "done"
    /\ UNCHANGED <<pipelineVars, sweepVars, rotVars, gridInputs, points, emissivity, counter, nextIter, running,
                   pointWriters, emissivityWriters, queried>>
\* what enqueueWriteBuffer copies into cl_buffer_emissivity
UploadedEmissivity ==
    IF EmissivityAliasesPoints THEN SubSeq(points, 1, input_size) ELSE emissivity

NotMarked == [by |-> {}, n |-> 0]
\* The arguments of constructRegularGrid and the state it starts its loop in.
GridArguments ==
    /\ tieBreak \in {"first", "last"}
    /\ \E g \in GridShapes : gridx = g[1] /\ gridy = g[2] /\ gridz = g[3]
    /\ max_distance \in DistanceBounds
    /\ alias \in BOOLEAN
    \* the team of the parallel region (1: the build without OpenMP)
    /\ num_threads \in 1..NThreads /\ input_size * num_threads <= MaxWork
    /\ points = [f \in 1..(8 * input_size) |-> Uninitialized]
    /\ emissivity = [f \in 1..input_size |-> Uninitialized]
    /\ counter = 0
    /\ nextIter = 0 /\ running = {}
    /\ pointWriters = [f \in 1..(8 * input_size) |-> NotMarked]
    /\ emissivityWriters = [f \in 1..input_size |-> NotMarked]
    /\ queried = [f \in 1..input_size |-> NotQueried]
GridInit ==
    /\ cloud \in Clouds /\ bounds = Bounds(cloud)
    /\ g_pc = "cells"
    /\ GridArguments

\* Lines 118-144 over a cube of zero points: nothing checks ng, the index is built
\* empty, and each bound is read through the end iterator of an empty vector. The
\* read may end the process or give whatever lies there.
StrayBounds ==
    {[minx |-> lo, maxx |-> hi, miny |-> lo, maxy |-> hi, minz |-> lo, maxz |-> hi] :
        lo \in {0, 1}, hi \in {0, 1}}
EmptyInit ==
    /\ cloud = <<>>
    /\ bounds \in StrayBounds
    /\ g_pc \in {"terminated", "cells"}
    /\ GridArguments
\* no grid under construction
GridParked ==
    /\ cloud = <<>> /\ tieBreak = "first"
    /\ bounds = [minx |-> 0, maxx |-> 0, miny |-> 0, maxy |-> 0, minz |-> 0, maxz |-> 0]
    /\ gridx = 0 /\ gridy = 0 /\ gridz = 0
    /\ max_distance = [x |-> 0, y |-> 0, z |-> 0]
    /\ alias = FALSE /\ num_threads = 0
    /\ points = <<>> /\ emissivity = <<>> /\ counter = 0
    /\ g_pc = "none" /\ nextIter = 0 /\ running = {}
    /\ pointWriters = <<>> /\ emissivityWriters = <<>> /\ queried = <<>>

GridNext ==
    \/ Grid_TakeIteration
    \/ \E w \in running : Grid_Query(w)
    \/ \E w \in running : Grid_Cell(w)
    \/ Grid_Finish

\* ------------------------------------------- RenderWithGPURegularGrid
\* Line 700: the display mode the sweep configures.
SweepIntegratedMode == "IntegratedIntensity"
SweepDisplayMode == "AllIntensities"

\* The angle lists explored: 0, 1, ... of each length up to MaxList.
Ramp(n) == [i \in 1..n |-> i - 1]
AngleLists == {Ramp(n) : n \in 0..MaxList}

\* Line 715: the caller's cube is handed over for the last pair only.
AlwaysLast == TRUE
FirstPair == lit = 1 /\ bit = 1
LastPair == lit + 1 > Len(lvec) /\ bit + 1 > Len(bvec)

\* What the sweep saw of a renderToCube call once it returned.
Observed == [view |-> call.view, kind |-> call.kind, file |-> call.file]

\* Float comparison and std::max: a comparison with a NaN is false, and
\* std::max(a, b) is b when a < b and a otherwise.
FloatLess(a, b) ==
    /\ ~a.nan /\ ~b.nan /\ a.den # 0
    /\ b.den = 0 \/ a.num * b.den < b.num * a.den
FloatMin(a, b) == IF FloatLess(b, a) THEN b ELSE a
FloatMax(a, b) == IF FloatLess(a, b) THEN b ELSE a

\* (max - min)/(pixel - 1): the spacing of the pixels over an extent
Spacing(extent, n) ==
    IF n = 1 THEN (IF extent = 0 THEN NaN ELSE Infinity) ELSE Fraction(extent, n - 1)
\* 2*f/.3
TwiceOverPointThree(f) == IF f.nan \/ f.den = 0 THEN f ELSE Fraction(20 * f.num, 3 * f.den)

\* Line 698
maxdistance ==
    TwiceOverPointThree(FloatMax(Spacing(s_bounds.maxx - s_bounds.minx, s_pixels.x),
                                 Spacing(s_bounds.maxy - s_bounds.miny, s_pixels.y)))

NoDistance == [x |-> Fraction(0, 1), y |-> Fraction(0, 1), z |-> Fraction(0, 1)]
NoBounds == [minx |-> 0, maxx |-> 0, miny |-> 0, maxy |-> 0]
\* The bounds readBounds may give: a flat cloud, and clouds wider along x or along y.
SweepBounds ==
    {[minx |-> 0, maxx |-> e[1], miny |-> 0, maxy |-> e[2]] :
        e \in {<<0, 0>>, <<1, MaxExtent>>, <<MaxExtent, 1>>}}

\* Lines 696-699: the bounds are read, and the distance is computed and passed
\* three times to constructRegularGrid.
Sweep_MaxDistance ==
    /\ s_pc = "start"
    /\ s_maxdistance' = [x |-> maxdistance, y |-> maxdistance, z |-> maxdistance]
    /\ s_pc' = "setup"
    /\ UNCHANGED <<pipelineVars, gridVars, rotVars, lvec, bvec, outfile, s_pixels, lit, bit, s_calls, s_log,
                   s_returned, s_bounds>>

\* Line 699: the grid is built.
Sweep_ConstructRegularGrid ==
    /\ s_pc = "setup" /\ calls = 0
    /\ ConstructRegularGrid_Begin

\* Line 700: the output is configured, once the grid is there.
Sweep_SetRenderingSettings ==
    /\ s_pc = "setup" /\ calls = 1
    /\ SetRenderingSettings(s_pixels.x, s_pixels.y, s_pixels.lambda, SweepDisplayMode)

\* Lines 702-703: both loops are entered.
Sweep_EnterLoops ==
    /\ s_pc = "setup" /\ calls = 2 /\ pc = "idle"
    /\ s_pc' = "loop" /\ lit' = 1 /\ bit' = 1 /\ s_calls' = calls
    /\ UNCHANGED <<pipelineVars, gridVars, rotVars, lvec, bvec, outfile, s_pixels, s_log, s_returned,
                   s_bounds, s_maxdistance>>

\* Lines 705-716: one pair's call of renderToCube.
Sweep_RenderToCube ==
    /\ s_pc = "loop" /\ calls = s_calls
    /\ lit <= Len(lvec) /\ bit <= Len(bvec)
    /\ RenderToCube(<<lvec[lit], bvec[bit]>>, outfile, LastPair)

\* Line 703: the call has returned; on to the next b.
Sweep_NextB ==
    /\ s_pc = "loop" /\ calls = s_calls + 1 /\ pc = "idle"
    /\ s_log' = Append(s_log, Observed)
    /\ bit' = bit + 1 /\ s_calls' = calls
    /\ UNCHANGED <<pipelineVars, gridVars, rotVars, s_pc, lvec, bvec, outfile, s_pixels, lit, s_returned,
                   s_bounds, s_maxdistance>>

\* Line 702: the inner loop is over; on to the next l.
Sweep_NextL ==
    /\ s_pc = "loop" /\ calls = s_calls
    /\ lit <= Len(lvec) /\ bit > Len(bvec)
    /\ lit' = lit + 1 /\ bit' = 1
    /\ UNCHANGED <<pipelineVars, gridVars, rotVars, s_pc, lvec, bvec, outfile, s_pixels, s_calls, s_log,
                   s_returned, s_bounds, s_maxdistance>>

\* Line 720: the local cube is returned.
Sweep_Return ==
    /\ s_pc = "loop" /\ calls = s_calls
    /\ lit > Len(lvec)
    /\ s_pc' = "returned" /\ s_returned' = cube
    /\ UNCHANGED <<pipelineVars, gridVars, rotVars, lvec, bvec, outfile, s_pixels, lit, bit, s_calls, s_log,
                   s_bounds, s_maxdistance>>

\* ------------------------------------------ rotateAroundZ, rotateAroundY
\* A float is held as a whole number of steps of 1/Unit, and a product is rounded
\* to the nearest step, ties to even, as a float product is rounded to the nearest
\* float. The significand is FloatBits wide instead of 24, which keeps the products
\* in range; sums of two products are exact here.
Unit == 2^FloatBits

RoundToNearest(p, d) ==
    LET n == Abs(p)
        q == n \div d
        r == n % d
        up == 2 * r > d \/ (2 * r = d /\ q % 2 = 1)
        m == IF up THEN q + 1 ELSE q
    IN  IF p < 0 THEN 0 - m ELSE m

Times(a, b) == RoundToNearest(a * b, Unit)

\* The angles tried, by their cosine and sine in ten-thousandths:
\* 0, pi/6, pi/4, 1 radian, pi/3, pi/2, 2 radians and pi.
Circle == << <<10000, 0>>, <<8660, 5000>>, <<7071, 7071>>, <<5403, 8415>>,
             <<5000, 8660>>, <<0, 10000>>, <<0 - 4161, 9093>>, <<0 - 10000, 0>> >>
Angles == [of : 1..Len(Circle), sign : {1, 0 - 1}]
Opposite(angle) == [angle EXCEPT !.sign = 0 - @]

\* cos(angle) and sin(angle) as the float they are stored in (lines 616-617,
\* 629-630): the cosine is even and the sine odd.
cos(angle) == RoundToNearest(Circle[angle.of][1] * Unit, 10000)
evenSin(angle) == RoundToNearest(Circle[angle.of][2] * Unit, 10000)
sin(angle) == angle.sign * RoundToNearest(Circle[angle.of][2] * Unit, 10000)

\* Lines 612-623 (in[0], in[1], in[2] are in[1], in[2], in[3] here).
rotateAroundZ(in, angle) ==
    LET cosa == cos(angle)
        sina == sin(angle)
    IN  << Times(cosa, in[1]) - Times(sina, in[2]),
           Times(sina, in[1]) + Times(cosa, in[2]),
           in[3] >>

\* Lines 625-636.
rotateAroundY(in, angle) ==
    LET cosa == cos(angle)
        sina == sin(angle)
    IN  << Times(cosa, in[1]) + Times(sina, in[3]),
           in[2],
           Times(0 - sina, in[1]) + Times(cosa, in[3]) >>

Axes == {"Z", "Y"}
AxisComponent(axis) == IF axis = "Z" THEN 3 ELSE 2
rotateAround(axis, in, angle) ==
    IF axis = "Z" THEN rotateAroundZ(in, angle) ELSE rotateAroundY(in, angle)

\* the vectors given: whole coordinates up to MaxCoord either way
Coord == {c * Unit : c \in (0 - MaxCoord)..MaxCoord}
Vectors == {<<a, b, c>> : a \in Coord, b \in Coord, c \in Coord}
NoVector == <<>>

\* The vector is rotated by the angle into a second array, as every call of the
\* file does (lines 418-419, 557-561).
Rotate_There ==
    /\ r_pc = "given"
    /\ r_temp' = rotateAround(r_axis, r_in, r_angle)
    /\ r_pc' = "there"
    /\ UNCHANGED <<pipelineVars, gridVars, sweepVars, r_axis, r_angle, r_in, r_out>>

\* The rotated vector is rotated by the opposite angle about the same axis.
Rotate_Back ==
    /\ r_pc = "there"
    /\ r_out' = rotateAround(r_axis, r_temp, Opposite(r_angle))
    /\ r_pc' = "back"
    /\ UNCHANGED <<pipelineVars, gridVars, sweepVars, r_axis, r_angle, r_in, r_temp>>

\* no rotation under way
RotParked ==
    /\ r_pc = "none" /\ r_axis = "Z" /\ r_angle = [of |-> 1, sign |-> 1]
    /\ r_in = NoVector /\ r_temp = NoVector /\ r_out = NoVector

RotNext == Rotate_There \/ Rotate_Back

\* no sweep under way
SweepParked ==
    /\ s_pc = "none" /\ lvec = <<>> /\ bvec = <<>> /\ outfile = FALSE
    /\ s_pixels = [x |-> 0, y |-> 0, lambda |-> 0]
    /\ lit = 0 /\ bit = 0 /\ s_calls = 0 /\ s_log = <<>> /\ s_returned = NoCube
    /\ s_bounds = NoBounds /\ s_maxdistance = NoDistance

\* Lines 687-698: the arguments, and the renderer as line 695 constructs it.
SweepInit ==
    /\ \E c \in 1..MaxChunk : Constructed(c, 0)
    /\ GridParked
    /\ s_pc = "start"
    /\ lvec \in AngleLists /\ bvec \in AngleLists /\ outfile \in BOOLEAN
    /\ s_pixels \in [x : XPixels, y : YPixels, lambda : LambdaPixels]
    /\ lit = 0 /\ bit = 0 /\ s_calls = 0 /\ s_log = <<>> /\ s_returned = NoCube
    /\ s_bounds \in SweepBounds /\ s_maxdistance = NoDistance
    /\ RotParked

SweepNext ==
    \/ Sweep_MaxDistance
    \/ Sweep_ConstructRegularGrid
    \/ ConstructRegularGrid_Fill
    \/ Sweep_SetRenderingSettings
    \/ Sweep_EnterLoops
    \/ Sweep_RenderToCube
    \/ Render_WriteParameters
    \/ Render_Start
    \/ Render_LoopEnqueue
    \/ Render_LoopExtract
    \/ Render_LastExtract
    \/ RenderToCube_Finish
    \/ RenderToCube_Finish_Crashes
    \/ \E q \in Channels : DeviceStep(q)
    \/ DeviceOperationFails
    \/ Sweep_NextB
    \/ Sweep_NextL
    \/ Sweep_Return

vars == <<pipelineVars, stray, gridVars, sweepVars, rotVars>>

Init == (\E c \in ChunkSizes, j \in {0, 1} : Constructed(c, j)) /\ GridParked /\ SweepParked /\ RotParked
Spec == Init /\ [][Next]_vars

GridSpecInit == Constructed(1, 0) /\ GridInit /\ SweepParked /\ RotParked
GridSpec == GridSpecInit /\ [][GridNext]_vars

SweepSpec == SweepInit /\ [][SweepNext]_vars

\* A rotation there and back, over the vectors, angles and axes above.
RotInit ==
    /\ Constructed(1, 0) /\ GridParked /\ SweepParked
    /\ r_pc = "given" /\ r_axis \in Axes /\ r_angle \in Angles /\ r_in \in Vectors
    /\ r_temp = NoVector /\ r_out = NoVector

RotSpec == RotInit /\ [][RotNext]_vars

EmptySpecInit == Constructed(1, 0) /\ EmptyInit /\ SweepParked /\ RotParked
EmptySpec == EmptySpecInit /\ [][GridNext]_vars

\* The pipeline on a device whose buffer writes can report errors as well. The
\* caller makes one call fewer than in Spec: three calls reach every failure.
FaultBudget == calls < MaxCalls - 1
FaultNext ==
    \/ FaultBudget /\ ConstructRegularGrid_Begin
    \/ ConstructRegularGrid_Fill
    \/ ConstructRegularGrid_Fill_WriteFails
    \/ \E x \in XPixels, y \in YPixels, lambda \in LambdaPixels, mode \in Modes :
          FaultBudget /\ SetRenderingSettings(x, y, lambda, mode)
    \/ \E x \in XPixels, y \in YPixels, lambda \in LambdaPixels, mode \in Modes :
          FaultBudget /\ SetRenderingSettings_BuildFails(x, y, lambda, mode)
    \/ \E view \in Views : FaultBudget /\ RenderToBuffer(view)
    \/ RenderToBuffer_Return
    \/ \E view \in Views, file \in BOOLEAN, ptr \in BOOLEAN :
          FaultBudget /\ RenderToCube(view, file, ptr)
    \/ \E view \in Views, file \in BOOLEAN, ptr \in BOOLEAN :
          FaultBudget /\ RenderToCube_BuildFails(view, file, ptr)
    \/ RenderToCube_Finish
    \/ RenderToCube_Finish_Crashes
    \/ RenderToCube_Finish_BuildFails
    \/ Render_WriteParameters
    \/ Render_WriteParameters_WriteFails
    \/ Render_Start
    \/ Render_LoopEnqueue
    \/ Render_LoopExtract
    \/ Render_LastExtract
    \/ DeviceOperationFails
    \/ \E q \in Channels : DeviceStep(q)

\* (one chunk size: the failures do not depend on it)
FaultInit == (Constructed(1, 0) \/ ConstructorExits) /\ GridParked /\ SweepParked /\ RotParked
FaultSpec == FaultInit /\ [][FaultNext]_vars

\* The pipeline on a device that completes every command it is given, with a host
\* thread that keeps running: no enqueue or read reports an error, the device
\* takes the head of each queue in the end, and render takes its next step
\* whenever it can. Three calls reach every frame.
LiveBudget == calls < MaxCalls - 1
RenderStep ==
    \/ Render_WriteParameters
    \/ Render_Start
    \/ Render_LoopEnqueue
    \/ Render_LoopExtract
    \/ Render_LastExtract
LiveNext ==
    \/ LiveBudget /\ ConstructRegularGrid_Begin
    \/ ConstructRegularGrid_Fill
    \/ \E x \in XPixels, y \in YPixels, lambda \in LambdaPixels, mode \in Modes :
          LiveBudget /\ SetRenderingSettings(x, y, lambda, mode)
    \/ \E view \in Views : LiveBudget /\ RenderToBuffer(view)
    \/ RenderToBuffer_Return
    \/ \E view \in Views, file \in BOOLEAN, ptr \in BOOLEAN :
          LiveBudget /\ RenderToCube(view, file, ptr)
    \/ RenderToCube_Finish
    \/ RenderToCube_Finish_Crashes
    \/ RenderStep
    \/ \E q \in Channels : DeviceStep(q)
LiveInit == (\E c \in 1..MaxChunk : Constructed(c, 0)) /\ GridParked /\ SweepParked /\ RotParked
LiveSpec ==
    /\ LiveInit /\ [][LiveNext]_vars
    /\ WF_vars(RenderStep)
    /\ \A q \in Channels : WF_vars(DeviceStep(q))

\* ======================================================== the claims
RenderOps == {"renderToBuffer", "renderToCube"}
ApiCall == calls' = calls + 1

\* The value a sequential evaluation of pixel p, element e, gives for the frame of
\* the running call.
ReferenceValue(p, e) ==
    [src |-> IF displayMode = "IntegratedIntensity" THEN "emissivity" ELSE "points",
     g |-> gridVersion, v |-> call.view, lam |-> lambda_pixel, p |-> p, e |-> e]

FrameBuffer == IF call.kind = "cube" THEN floats ELSE bytes

ReferenceFrame ==
    LET per == IF call.kind = "cube" THEN lambda_pixel ELSE BytesPerPixel
    IN  [i \in 1..(pixels * per) |-> ReferenceValue((i - 1) \div per, (i - 1) % per)]

\* How many readbacks of the running frame copied pixel p to the caller's buffer.
ExtractCount(p) ==
    Cardinality({i \in 1..Len(reads) : reads[i].offset <= p /\ p < reads[i].offset + reads[i].n})

NoKernelPending ==
    \A q \in Channels : \A i \in 1..Len(queues[q]) : queues[q][i].op # "kernel"

\* C1: when render returns, the caller's frame buffer holds, for every chunk size,
\* what one sequential evaluation of all pixels gives.
C1_ChunkingMatchesSequential ==
    pc = "r_done" => FrameBuffer = ReferenceFrame

\* C2: when render returns, every pixel 0..x_pixel*y_pixel-1 has been extracted
\* exactly once, the pixels of the last issued chunk included.
C2_EveryPixelExtractedOnce ==
    pc = "r_done" => \A p \in 0..(pixels - 1) : ExtractCount(p) = 1

\* C3: chunk k is issued on channel k mod 2, no channel ever holds two chunks that
\* were issued and not yet drained by a completed blocking readback, and at most
\* two chunks are live.
C3_ChannelsAlternate ==
    /\ \A i \in 1..Len(issued) : issued[i].k = i - 1 /\ issued[i].chan = (i - 1) % 2
    /\ \A c1 \in live : \A c2 \in live : c1.chan = c2.chan => c1 = c2
    /\ Cardinality(live) <= 2

C3_Witness == Len(issued) >= 3 /\ Cardinality(live) = 2

\* C4: when the host starts the blocking readback of a chunk, that chunk is live on
\* the channel read, and the chunk after it, if the frame has one, has already
\* been queued on the other channel.
C4_NextChunkQueuedBeforeReadback ==
    pc \in {"r_extract", "r_last"} =>
        /\ \E c \in live : c.chan = index /\ c.frame = frame
        /\ \A c \in live : (c.chan = index /\ (c.k + 1) * chunk_size < pixels) =>
              \E j \in 1..Len(issued) :
                  issued[j].k = c.k + 1 /\ issued[j].chan = 1 - index

C4_Witness == pc = "r_extract" /\ Len(issued) = 3 /\ queues[1 - index] # <<>>

\* C5: at the moment render writes the rotation rows and the pixel pitch into the
\* parameter block, no chunk of an earlier frame is live and no kernel is queued
\* or running on either channel.
C5_ParametersNotSharedAcrossFrames ==
    pc = "r_params" => (live = {} /\ NoKernelPending)

C5_Witness == pc = "r_params" /\ frame = 2 /\ parameters # NoView /\ parameters # call.view

\* C6: from a call of constructRegularGrid until the next accepted
\* setRenderingSettings, every renderToBuffer and renderToCube call returns at once,
\* queues nothing and writes no output.
C6_GridInvalidatesMode ==
    [][(ApiCall /\ op' \in RenderOps /\ ~reconfigured) =>
          (pc' = "idle" /\ UNCHANGED <<queues, devOut, bytes, floats, cube, frame, issued>>)]_vars

C6_Witness ==
    /\ op = "renderToBuffer" /\ diag = DiagRenderBeforeSettings
    /\ gridVersion = 2 /\ compiles >= 1 /\ ~reconfigured

\* C7 as stated: every render call made without rendering settings emits a
\* diagnostic, queues nothing, writes nothing and leaves the flags and the display
\* mode unchanged.
C7_RefusedRenderAlwaysDiagnosed ==
    [][(ApiCall /\ op' \in RenderOps /\ ~hasRenderingSettings) =>
          /\ diag' # DiagNone
          /\ pc' = "idle"
          /\ UNCHANGED <<queues, devOut, bytes, floats, cube, hasRegularGrid,
                         hasRenderingSettings, displayMode>>]_vars

\* C7 amended: every render call made without rendering settings queues nothing,
\* writes nothing and leaves the flags and the display mode unchanged; it emits a
\* diagnostic unless it is renderToCube with an empty file name and a null cube
\* pointer, which returns silently.
C7_RefusedRenderIsNoOp ==
    [][(ApiCall /\ op' \in RenderOps /\ ~hasRenderingSettings) =>
          /\ (diag' = DiagNone) <=> (op' = "renderToCube" /\ ~call'.file /\ ~call'.ptr)
          /\ pc' = "idle"
          /\ UNCHANGED <<queues, devOut, bytes, floats, cube, hasRegularGrid,
                         hasRenderingSettings, displayMode>>]_vars

C7_Witness ==
    /\ op = "renderToCube" /\ call.kind = "refused" /\ call.ptr
    /\ diag = DiagCubeBeforeSettings /\ hasRegularGrid /\ pc = "idle"

\* C8: setRenderingSettings called before any constructRegularGrid leaves
\* hasRenderingSettings false, the stored settings and the display mode unchanged,
\* allocates no output buffer and compiles no program.
C8_SettingsBeforeGridSkipped ==
    [][(ApiCall /\ op' = "setRenderingSettings" /\ gridVersion = 0) =>
          /\ hasRenderingSettings' = FALSE
          /\ UNCHANGED <<x_pixel, y_pixel, lambda_pixel, displayMode, kernels, compiles,
                         devOut, dev, queues>>]_vars

C8_Witness ==
    op = "setRenderingSettings" /\ gridVersion = 0 /\ diag = DiagSettingsBeforeGrid

\* What the iteration of cell c computes, from the inputs alone.
CellOf(c) ==
    LET i == c \div (gridx * gridz)
        j == (c \div gridz) % gridx
        k == c % gridz
    IN  Nearest(TargetPoint(i, j, k))
StoredRecord(c) == [f \in 1..8 |-> points[8 * c + f]]

\* C9: once constructRegularGrid has completed, every float of every cell's
\* point record and every cell's slot of the emissivity storage has been
\* written exactly once, and holds what the cell's own iteration computed
\* (the matched values or the default), whatever the resolution and the
\* order in which the workers ran.
C9_EveryCellWrittenOnce ==
    g_pc = "done" =>
        \A c \in Cells :
            /\ \A f \in RecordFloats(c) : pointWriters[f].n = 1
            /\ emissivityWriters[c + 1].n = 1
            /\ StoredRecord(c) = PointRecord(CellOf(c))
            /\ emissivity[c + 1] = Emissivity(CellOf(c))

\* C10: no memory location, of the point records or of the emissivity
\* storage, is ever written by the iterations of two different cells.
C10_CellsWriteDisjointStorage ==
    /\ \A f \in DOMAIN pointWriters : Cardinality(pointWriters[f].by) <= 1
    /\ \A f \in DOMAIN emissivityWriters : Cardinality(emissivityWriters[f].by) <= 1

\* The point-record memory after a single worker has processed cells 0..c-1
\* in index order: the run every other run is compared with.
RECURSIVE SerialPoints(_)
SerialPoints(c) ==
    IF c = 0 THEN [f \in 1..(8 * input_size) |-> Uninitialized]
    ELSE LET n == CellOf(c - 1)
             stored == StorePoint(SerialPoints(c - 1), c - 1, PointRecord(n))
         IN  IF EmissivityAliasesPoints THEN StoreFloat(stored, c - 1, Emissivity(n)) ELSE stored
SerialEmissivity ==
    IF EmissivityAliasesPoints THEN SubSeq(SerialPoints(input_size), 1, input_size)
    ELSE [c \in 1..input_size |-> Emissivity(CellOf(c - 1))]

\* C11: grid construction is deterministic: whatever the order in which the
\* workers ran the cells, a completed constructRegularGrid leaves the point
\* records and the emissivity it uploads exactly as the run in index order
\* over the same cloud, bounds, resolution and distance bounds leaves them.
C11_ContentIndependentOfSchedule ==
    g_pc = "done" =>
        /\ points = SerialPoints(input_size)
        /\ UploadedEmissivity = SerialEmissivity

\* what line 266 prints
ReportedMatches == counter
ReportedTotal == gridx * gridy * gridz
MatchedCells == {c \in Cells : queried[c + 1].asked /\ queried[c + 1].n # 0}

\* C12: the match count reported when constructRegularGrid ends is the number
\* of cells whose query returned a source point, and the reported total is the
\* number of cells, under every interleaving of the workers.
C12_ReportedCountIsExact ==
    g_pc = "done" =>
        /\ ReportedMatches = Cardinality(MatchedCells)
        /\ ReportedTotal = Cardinality(Cells)

\* The content the claim gives a cell whose query returned source point n (0: none).
ReferenceRecord(n) ==
    IF n = 0 THEN <<Zero, One, Zero, Zero, Zero, Zero, Zero, Zero>>
    ELSE <<Num(1, 0, cloud[n].peak), Num(0, 0, cloud[n].fwhm), Num(0, 0, cloud[n].vx),
           Num(0, 0, cloud[n].vy), Num(0, 0, cloud[n].vz), Zero, Zero, Zero>>
ReferenceEmissivity(n) ==
    IF n = 0 THEN Zero ELSE Num(1, 1, cloud[n].peak * cloud[n].fwhm)
HoldsDefault(c) ==
    StoredRecord(c) = ReferenceRecord(0) /\ UploadedEmissivity[c + 1] = ReferenceEmissivity(0)
PointsInBox(c) == {n \in DOMAIN cloud : InBox(n, queried[c + 1].t)}

\* C13: after constructRegularGrid each cell holds the reference value of the
\* source point its query found (scaled intensity, line width, velocity, and
\* intensity * line width * the Gaussian constant as emissivity), or the
\* default (0, 1, 0; emissivity 0) if it found none, and it holds the default
\* exactly when no source point lies within its distance box.
C13_CellsHoldReferenceValues ==
    g_pc = "done" =>
        \A c \in Cells :
            /\ StoredRecord(c) = ReferenceRecord(queried[c + 1].n)
            /\ UploadedEmissivity[c + 1] = ReferenceEmissivity(queried[c + 1].n)
            /\ HoldsDefault(c) <=> PointsInBox(c) = {}

\* A brute-force scan over all points of the cloud, for the box with its boundary.
InClosedBox(n, t) ==
    \A a \in {"x", "y", "z"} :
        ~t[a].nan /\ Abs(cloud[n][a] * t[a].den - t[a].num) <= max_distance[a] * t[a].den
ScanAgrees(q, inside) ==
    /\ q.n = 0 <=> inside = {}
    /\ q.n # 0 => /\ q.n \in inside
                  /\ \A o \in inside : Distance2(q.n, q.t) <= Distance2(o, q.t)

\* C14: for every cell the point the query selected is the nearest of the
\* points lying within the cell's distance box (the box |dx| <= max_distance_x,
\* |dy| <= max_distance_y, |dz| <= max_distance_z around the cell), and none
\* is selected exactly when no point lies within that box.
C14_QueryAgreesWithScan ==
    \A c \in Cells :
        queried[c + 1].asked =>
            ScanAgrees(queried[c + 1], {n \in DOMAIN cloud : InClosedBox(n, queried[c + 1].t)})

\* f is the number num/den
IsNumber(f, num, den) == ~f.nan /\ f.den # 0 /\ f.num * den = num * f.den
\* the grid indices of cell c along x, y, z
IndexAlong(c) == [x |-> (c \div gridz) % gridx, y |-> c \div (gridx * gridz), z |-> c % gridz]
Resolution == [x |-> gridx, y |-> gridy, z |-> gridz]
Lowest == [x |-> minx, y |-> miny, z |-> minz]
Highest == [x |-> maxx, y |-> maxy, z |-> maxz]
StoredExtent == [x |-> grid_size_x, y |-> grid_size_y, z |-> grid_size_z]

WellDefinedSlab(a) ==
    /\ g_pc = "done" => IsNumber(StoredExtent[a], 1, 1)
    /\ \A c \in Cells :
          queried[c + 1].asked => ~queried[c + 1].t[a].nan /\ queried[c + 1].t[a].den # 0

\* C16: a resolution of 1 along an axis, x, y or z, gives that axis the extent
\* 1 and a well-defined cell coordinate: nothing is divided by gridN - 1 = 0,
\* neither for the extent nor for the coordinate.
C16_UnitResolutionIsWellDefined ==
    \A a \in {"x", "y", "z"} : Resolution[a] = 1 => WellDefinedSlab(a)

\* the cell of the 2x2x2 grid on the corner where source point n sits
CornerCell(n) == CellIndex(cloud[n].y, cloud[n].x, cloud[n].z)
\* the intensity component of cell c's point record
StoredIntensity(c) == points[8 * c + 1]
UnitCubeScenario ==
    /\ cloud \in {CubeCloud, CubeCloudReversed}
    /\ gridx = 2 /\ gridy = 2 /\ gridz = 2
    /\ \A a \in {"x", "y", "z"} : max_distance[a] > 1

\* C17: for eight points on the corners of the unit cube with the intensities
\* 0..7, a 2x2x2 grid and a distance bound larger than the cube, each corner
\* cell holds the intensity of the source point on that corner (in the
\* renderer's units, i.e. times 1e8).
C17_UnitCubeReproduced ==
    (g_pc = "done" /\ UnitCubeScenario) =>
        \A n \in DOMAIN cloud : StoredIntensity(CornerCell(n)) = Num(1, 0, cloud[n].peak)

\* ------------------------------------------------------------ the sweep
\* The pairs of the two angle lists in l-major order.
PairAt(n) == <<lvec[((n - 1) \div Len(bvec)) + 1], bvec[((n - 1) % Len(bvec)) + 1]>>
AllPairs == [n \in 1..(Len(lvec) * Len(bvec)) |-> PairAt(n)]

IsFrame(e) == e.kind = "cube"
ViewsOf(log) == [n \in 1..Len(log) |-> log[n].view]
\* The frames the sweep rendered, in the order it rendered them.
RenderedViews == ViewsOf(SelectSeq(s_log, IsFrame))
CalledViews == ViewsOf(s_log)

FinalPairOnly == IF Len(AllPairs) = 0 THEN <<>> ELSE <<AllPairs[Len(AllPairs)]>>

\* C18 as stated: the sweep that has returned has rendered one frame for every
\* pair of the two lists, in l-major order, with or without an output path.
C18_FrameForEveryPair ==
    s_pc = "returned" => RenderedViews = AllPairs

\* C18: the sweep that has returned has called renderToCube for every pair in
\* l-major order; with an output path every call rendered a frame, without one
\* only the call for the final pair did and the others returned at once.
C18_FrameForEveryWrittenPair ==
    s_pc = "returned" =>
        /\ CalledViews = AllPairs
        /\ RenderedViews = IF outfile THEN AllPairs ELSE FinalPairOnly
        /\ \A n \in 1..Len(s_log) : s_log[n].kind \in {"cube", "skipped"}

C18_Witness ==
    /\ s_pc = "returned" /\ ~outfile
    /\ Len(lvec) = 2 /\ Len(bvec) = 2
    /\ Len(RenderedViews) = 1 /\ Len(s_log) = 4


\* The sweep has configured its renderer.
SweepConfigured == s_pc \in {"loop", "returned"}

\* C19: over a whole sweep the grid is constructed once and the kernel program is
\* compiled once, never more, and from the configuration on the display mode is
\* AllIntensities in every state, during and between the frames.
C19_BuiltAndCompiledOnce ==
    /\ gridVersion <= 1 /\ compiles <= 1
    /\ SweepConfigured =>
          /\ gridVersion = 1 /\ compiles = 1
          /\ displayMode = "AllIntensities"
          /\ hasRegularGrid /\ hasRenderingSettings

C19_Witness ==
    /\ s_pc = "returned" /\ outfile
    /\ Len(RenderedViews) = 4
    /\ compiles = 1 /\ gridVersion = 1


FinalPair == <<lvec[Len(lvec)], bvec[Len(bvec)]>>
\* Values of the frame rendered for view v: what render delivered of it, the
\* rest of the freshly allocated frame buffer being as allocated.
OfFrame(data, v) == \A n \in 1..Len(data) : data[n] = Junk \/ data[n].v = v
Delivered(data) == \E n \in 1..Len(data) : data[n] # Junk

\* C20: for non-empty angle lists the cube the sweep returns is the cube of the
\* frame rendered for the last l with the last b: it carries that view, has that
\* frame's size, and holds no value of an earlier frame.
C20_ReturnsFinalCube ==
    (s_pc = "returned" /\ Len(lvec) > 0 /\ Len(bvec) > 0) =>
        /\ s_returned.view = FinalPair
        /\ Len(s_returned.data) = pixels * lambda_pixel
        /\ OfFrame(s_returned.data, FinalPair)

C20_Witness ==
    /\ s_pc = "returned" /\ outfile
    /\ Len(lvec) = 2 /\ Len(bvec) = 2
    /\ Len(RenderedViews) = 4
    /\ s_returned.view = FinalPair
    /\ Delivered(s_returned.data)


\* The two pixel spacings of the sweep, for frames of two pixels or more a side.
SpacingX == Fraction(s_bounds.maxx - s_bounds.minx, s_pixels.x - 1)
SpacingY == Fraction(s_bounds.maxy - s_bounds.miny, s_pixels.y - 1)
SmallerSpacing == IF SpacingX.num * SpacingY.den <= SpacingY.num * SpacingX.den THEN SpacingX ELSE SpacingY
LargerSpacing == IF SpacingX.num * SpacingY.den <= SpacingY.num * SpacingX.den THEN SpacingY ELSE SpacingX
\* d is 2/.3 times the spacing f
IsMultipleOf(d, f) == IsNumber(d, 20 * f.num, 3 * f.den)
SpacingsDefined == s_pc \notin {"none", "start"} /\ s_pixels.x > 1 /\ s_pixels.y > 1

C22_DeviceFailureIsFatal ==
    failure # "none" => pc = "exited"


\* ---------------------------------------------------- the empty cloud
\* C23: a renderer constructed over zero points ends the process: no cell of a
\* grid is ever computed from it.
C23_EmptyCloudIsFatal ==
    (Len(cloud) = 0 /\ g_pc # "none") =>
        /\ g_pc = "terminated"
        /\ nextIter = 0 /\ running = {}


SetupFailures == {"platform", "context", "device", "build"}
KernelCanBeEnqueued == pc \in {"r_start", "r_loop"}

\* C24: when no platform, context or device is found, or a build of the kernel
\* program fails, the process has exited with the diagnostic of that failure; it
\* is never at a point where a kernel can be enqueued, and no call carries on
\* without a device or a program.
C24_SetupFailureIsFatal ==
    failure \in SetupFailures =>
        /\ pc = "exited"
        /\ ~KernelCanBeEnqueued
        /\ diag = IF failure = "build" THEN DiagBuildFailed ELSE DiscoveryDiag[failure]

\* a build fails inside renderToCube, after an earlier build succeeded
C24_Witness ==
    /\ failure = "build" /\ pc = "exited"
    /\ op = "renderToCube" /\ compiles > 0
    /\ diag = DiagBuildFailed


\* ------------------------------------------------------ display modes
\* The kind of output buffer extractData reads back (lines 659, 666).
ExtractedKind == IF displayMode = "AllIntensities" THEN "floats" ELSE "bytes"
InputOfMode == [IntegratedIntensity |-> "emissivity", AllIntensities |-> "points"]
OutputOfMode == [IntegratedIntensity |-> "bytes", AllIntensities |-> "floats"]

\* C25: once a display mode is set, both kernels are built for it and bound to its
\* buffers, emissivity in and bytes out for IntegratedIntensity, points in and
\* floats out for AllIntensities, each kernel to the output buffer of its own
\* channel, and extractData reads back the kind of buffer the kernels write.
C25_KernelsBoundToMode ==
    displayMode \in Modes =>
        \A i \in Channels :
            /\ kernels[i].mode = displayMode
            /\ kernels[i].input = InputOfMode[displayMode]
            /\ kernels[i].output = OutputOfMode[displayMode]
            /\ kernels[i].outIdx = i
            /\ ExtractedKind = kernels[i].output

\* a frame read back in AllIntensities by a renderToCube called in IntegratedIntensity
C25_Witness ==
    /\ pc = "r_done" /\ call.kind = "cube"
    /\ call.tmpDisplayMode = "IntegratedIntensity" /\ displayMode = "AllIntensities"
    /\ Len(reads) > 0
    /\ \A i \in Channels : kernels[i].output = "floats"


\* the step on which a call of renderToCube returns at once (lines 380, 384)
ReturnsAtOnce == ApiCall /\ op' = "renderToCube" /\ pc' = "idle"
\* the step on which a call of renderToCube that rendered a frame returns
ReturnsWithFrame == pc = "r_done" /\ call.kind = "cube" /\ pc' = "idle"

\* C26: when a call of renderToCube returns, the display mode is the one the call
\* found and both kernels are bound for that mode, whether the call returned at
\* once or rendered its frame in AllIntensities.
C26_RenderToCubeKeepsMode ==
    [][/\ ReturnsAtOnce => (displayMode' = displayMode /\ kernels' = kernels)
       /\ ReturnsWithFrame =>
              /\ displayMode' = call.tmpDisplayMode
              /\ kernels' = BoundKernels(call.tmpDisplayMode, lambda_pixel)]_vars

\* a call made in IntegratedIntensity has rendered its frame and returned
C26_Witness ==
    /\ pc = "idle" /\ op = "renderToCube" /\ call.kind = "cube"
    /\ call.tmpDisplayMode = "IntegratedIntensity"
    /\ displayMode = "IntegratedIntensity"
    /\ compiles >= 3


\* C27: a call of renderToBuffer made while the display mode is AllIntensities
\* returns at once with a diagnostic, the AllIntensities one when rendering
\* settings exist; it queues nothing on the device, starts no frame and leaves the
\* caller's byte buffer as it was.
C27_BufferRefusedInAllIntensities ==
    [][(ApiCall /\ op' = "renderToBuffer" /\ displayMode = "AllIntensities") =>
          /\ diag' = IF hasRenderingSettings THEN DiagRenderAllIntensities
                     ELSE DiagRenderBeforeSettings
          /\ pc' = "idle"
          /\ queues' = queues /\ issued' = issued /\ frame' = frame
          /\ bytes' = bytes]_vars

C27_Witness ==
    /\ op = "renderToBuffer" /\ pc = "idle"
    /\ hasRenderingSettings /\ displayMode = "AllIntensities"
    /\ diag = DiagRenderAllIntensities
    /\ calls = 3


\* the step on which a call of renderToCube finds no output asked for (line 379)
ReturnsSkipped == ApiCall /\ op' = "renderToCube" /\ call'.kind = "skipped"
\* The cube of the frame the running call rendered.
FrameCube == renderCube

\* C28: a call of renderToCube that rendered its frame writes the cube to a file
\* exactly when a file name was given and stores it in the caller's cube exactly
\* when a pointer was given; a call goes further than its first test only when
\* one of the two was given, and otherwise returns without a frame, with the
\* display mode, the kernels, the files and the caller's cube as they were.
C28_OutputWhereAsked ==
    [][/\ ReturnsWithFrame =>
              /\ written' = IF call.file THEN FrameCube ELSE written
              /\ cube' = IF call.ptr THEN FrameCube ELSE cube
       /\ (ApiCall /\ op' = "renderToCube" /\ call'.kind # "skipped") =>
              (call'.file \/ call'.ptr)
       /\ ReturnsSkipped =>
              /\ pc' = "idle" /\ diag' = DiagNone
              /\ UNCHANGED <<displayMode, kernels, compiles, frame, queues, issued,
                             floats, written, cube>>]_vars

\* a call given both a file name and a pointer has returned
C28_Witness ==
    /\ pc = "idle" /\ op = "renderToCube" /\ call.kind = "cube"
    /\ call.file /\ call.ptr
    /\ written = cube /\ written.view = call.view
    /\ Len(written.data) = pixels * lambda_pixel /\ Len(written.data) > 0


\* ------------------------------------------------------- the cube's layout
\* a call of renderToCube given a pointer has just returned with its frame
CubeJustStored == pc = "idle" /\ op = "renderToCube" /\ call.kind = "cube" /\ call.ptr
IndexYXW(x, y, w) == (y * x_pixel + x) * lambda_pixel + w + 1
\* What the kernel computes for pixel (x, y) at wavelength sample w of the frame.
ProducedIntensity(x, y, w) ==
    [src |-> "points", g |-> gridVersion, v |-> cube.view, lam |-> lambda_pixel,
     p |-> y * x_pixel + x, e |-> w]

\* C29: in the cube renderToCube has stored, the sample at index
\* (y*x_pixel + x)*lambda_pixel + w carries the coordinates (xs[x], ys[y],
\* lambdas[w]) and the intensity rendered for pixel (x, y) at wavelength sample w,
\* for all x, y and w in range.
C29_CubeIndexedYXW ==
    CubeJustStored =>
        \A x \in 0..(x_pixel - 1), y \in 0..(y_pixel - 1), w \in 0..(lambda_pixel - 1) :
            /\ cube.grid[IndexYXW(x, y, w)] = [x |-> x, y |-> y, lambda |-> w]
            /\ cube.data[IndexYXW(x, y, w)] = ProducedIntensity(x, y, w)

\* --- C30
\* the component along the rotation axis
Along(v) == v[AxisComponent(r_axis)]
Rotated == r_pc \in {"there", "back"}
RotatedBack == r_pc = "back"
AxisComponentKept ==
    /\ Rotated => Along(r_temp) = Along(r_in)
    /\ RotatedBack => Along(r_out) = Along(r_temp)
\* the floating tolerance: two steps for each whole unit of the coordinate (the
\* rounded cosine and sine are not exactly on the unit circle), and two more for
\* the rounded products
Tolerance(c) == 2 * (Abs(c) \div Unit) + 2

\* What rounding rules out: that the vector comes back exactly as it was given.
RoundTripExact ==
    /\ AxisComponentKept
    /\ RotatedBack => r_out = r_in

C31_SettingsOnlyOverGrid ==
    /\ [](hasRenderingSettings => hasRegularGrid)
    /\ [][hasRegularGrid => hasRegularGrid']_vars

\* settings are in force over a grid that has been built a second time
C31_Witness == hasRenderingSettings /\ hasRegularGrid /\ gridVersion = 2

\* --- C32
CeilDiv(a, b) == (a + b - 1) \div b
\* the pixels chunk c computes
ChunkPixels(c) == c.offset .. (c.offset + c.size - 1)
\* how many of the chunks issued so far compute pixel p
IssueCount(p) == Cardinality({i \in 1..Len(issued) : p \in ChunkPixels(issued[i])})

\* C32: the chunks one render call enqueues partition the pixel range: chunk k
\* starts at k*chunk_size and has min(chunk_size, pixels - offset) pixels, none
\* extends past the frame, and when render returns ceil(pixels/chunk_size)
\* kernels were enqueued and every pixel was computed by exactly one of them.
C32_ChunksPartitionFrame ==
    /\ \A i \in 1..Len(issued) :
          /\ issued[i].offset = (i - 1) * chunk_size
          /\ issued[i].size = Min(chunk_size, pixels - issued[i].offset)
          /\ issued[i].size >= 1
          /\ issued[i].offset + issued[i].size <= pixels
    /\ pc = "r_done" =>
          /\ Len(issued) = CeilDiv(pixels, chunk_size)
          /\ \A p \in 0..(pixels - 1) : IssueCount(p) = 1

\* a returned frame of two chunks, the second shorter than the first
C32_Witness ==
    /\ pc = "r_done" /\ Len(issued) = 2
    /\ issued[2].size < issued[1].size /\ issued[1].size = chunk_size

\* --- C33
\* the capacity of each channel's output buffers, in pixels
ChannelCapacity == Min(chunk_size, pixels)
\* the kind of output buffer the display mode selects (lines 660, 666)
SelectedKind == IF displayMode = "AllIntensities" THEN "floats" ELSE "bytes"
KernelCommands(q) == {i \in 1..Len(queues[q]) : queues[q][i].op = "kernel"}
\* the elements a queued kernel writes are within the buffer it is bound to
KernelFits(c) ==
    c.size * PerPixel(c.kernel.output, c.kernel.lambda)
        <= Len(devOut[c.kernel.output][c.kernel.outIdx])
\* the elements a readback asks for are within the buffer of its channel
ReadFits(r) ==
    r.n * PerPixel(SelectedKind, lambda_pixel) <= Len(devOut[SelectedKind][r.chan])

\* C33: every chunk enqueued on a channel and every readback asked of it fits the
\* channel's output buffer: the chunk's size and the pixels_in_job given to
\* extractData are at most min(chunk_size, x_pixel*y_pixel), the capacity
\* setRenderingSettings allocates for each channel.
C33_ChunksFitOutputBuffer ==
    /\ \A i \in 1..Len(issued) : issued[i].size <= ChannelCapacity
    /\ \A q \in Channels : \A i \in KernelCommands(q) : KernelFits(queues[q][i])
    /\ \A i \in 1..Len(reads) : reads[i].n <= ChannelCapacity /\ ReadFits(reads[i])

\* a chunk of several pixels that fills its channel's buffer has been read back
C33_Witness ==
    /\ \E i \in 1..Len(reads) : reads[i].n = ChannelCapacity /\ reads[i].n > 1
    /\ \E i \in 1..Len(issued) : issued[i].size = ChannelCapacity

\* --- C34
\* elements per pixel of the caller's buffer in the running frame
FramePerPixel == PerPixel(SelectedKind, lambda_pixel)
\* the indices of the caller's buffer that the copy of readback r writes
\* (local_offset + i for 0 <= i < pixels_in_job * per, lines 663-665, 669-671)
Destination(r) == (r.offset * FramePerPixel) .. ((r.offset + r.n) * FramePerPixel - 1)
Rendering == pc \in {"r_params", "r_start", "r_loop", "r_extract", "r_last", "r_done"}

\* C34: every copy extractData makes during a render call stays inside the
\* caller's frame buffer, and the copies of different chunks write disjoint
\* ranges: the chunk at pixel offset o with n pixels writes the indices
\* o*per .. (o+n)*per - 1, all below x_pixel*y_pixel*per, where per is
\* lambda_pixel for floats and bytes_per_pixel for bytes.
C34_CopiesInsideFrameAndDisjoint ==
    /\ ~oob
    /\ Rendering => Len(FrameBuffer) = pixels * FramePerPixel
    /\ \A i \in 1..Len(reads) :
          \A e \in Destination(reads[i]) : 0 <= e /\ e < pixels * FramePerPixel
    /\ \A i \in 1..Len(reads) : \A j \in 1..Len(reads) :
          i # j => Destination(reads[i]) \cap Destination(reads[j]) = {}

\* a cube frame of several samples a pixel, copied in two chunks
C34_Witness ==
    /\ pc = "r_done" /\ call.kind = "cube" /\ lambda_pixel > 1
    /\ Len(reads) = 2 /\ reads[1].n > 1 /\ reads[2].n > 0
    /\ Destination(reads[1]) \cup Destination(reads[2]) = 0..(Len(floats) - 1)

\* --- C35
\* each kernel is queued on the queue of its channel and writes that channel's
\* output buffer, so the two channels have no output buffer in common
KernelsKeepToChannel ==
    /\ \A q \in Channels : \A i \in KernelCommands(q) :
          queues[q][i].chan = q /\ queues[q][i].kernel.outIdx = q
    /\ \A i \in 1..Len(issued) : issued[i].chan \in Channels
    /\ displayMode # "none" => \A i \in Channels : kernels[i].outIdx = i
\* the k-th readback of the frame drains the k-th chunk issued: same channel,
\* same pixel offset
DrainedWhereIssued ==
    /\ Len(reads) <= Len(issued)
    /\ \A k \in 1..Len(reads) :
          reads[k].chan = issued[k].chan /\ reads[k].offset = issued[k].offset
    /\ pc = "r_done" => Len(reads) = Len(issued)

\* C35: kernel i writes only output buffer i and is enqueued only on queue i,
\* every chunk is drained from the channel it was issued on and at the pixel
\* offset it was issued at, and the two channels never share an output buffer.
C35_ChannelExclusivity == KernelsKeepToChannel /\ DrainedWhereIssued

\* --- C36
WriteCommands(q) == {i \in 1..Len(queues[q]) : queues[q][i].op = "write"}
\* a kernel of the running frame has been enqueued
KernelEnqueued == Len(issued) > 0 \/ \E q \in Channels : KernelCommands(q) # {}
\* no upload is still queued, and the device holds the grid of the last
\* constructRegularGrid, the wavelength table of the last setRenderingSettings
\* and the parameter block of the running frame
UploadsCompleted ==
    /\ \A q \in Channels : WriteCommands(q) = {}
    /\ dev.points = gridVersion /\ dev.emissivity = gridVersion
    /\ dev.lambdaval = lambda_pixel
    /\ dev.params = call.view /\ parameters = call.view

\* C36: when a kernel of a frame is enqueued, on either channel, every
\* non-blocking upload the frame depends on has completed: the grid's points
\* and emissivities, the wavelength table and the frame's parameter block.
C36_UploadsCompleteBeforeKernels == KernelEnqueued => UploadsCompleted

\* the second chunk of a frame waits on channel 1, over a grid uploaded twice
C36_Witness ==
    /\ Len(issued) = 2 /\ KernelCommands(1) # {}
    /\ gridVersion = 2 /\ dev.points = 2 /\ dev.params = call.view

\* --- C37
\* The two output pointers render is given: renderToBuffer passes (data, NULL)
\* (line 358), renderToCube passes (NULL, data) with data fresh from new[]
\* (lines 392, 396).
RenderBytes == IF call.kind = "buffer" THEN "data" ELSE "NULL"
RenderFloats == IF call.kind = "cube" THEN "data" ELSE "NULL"
\* the pointer extractData copies through (lines 660-672)
SelectedPointer == IF displayMode = "AllIntensities" THEN RenderFloats ELSE RenderBytes
InsideRender == pc \in {"r_params", "r_start", "r_loop", "r_extract", "r_last"}

\* C37: whenever render runs, reached through renderToBuffer or renderToCube,
\* the output pointer the display mode selects is not null: floats in the
\* AllIntensities mode, bytes in every other mode.
C37_SelectedPointerNotNull == InsideRender => SelectedPointer # "NULL"

\* a cube frame under way for a caller in a screen mode, after a buffer frame
C37_Witness ==
    /\ pc = "r_last" /\ call.kind = "cube" /\ call.tmpDisplayMode = "IntegratedIntensity"
    /\ displayMode = "AllIntensities" /\ frame = 2 /\ Len(bytes) > 0

\* --- C38
\* C38: renderToCube only indexes coordinate axes it has allocated: for every
\* lambda_pixel >= 1, the imaging case lambda_pixel = 1 with its two axes
\* included, the extraction loop accesses no axis that the cube's grid lacks.
C38_OnlyAllocatedAxesIndexed == ~stray /\ pc # "crashed"

\* --- C39
\* render has returned to renderToBuffer or renderToCube, the renderer still
\* configured over its grid and both queues idle
RenderReturned ==
    /\ pc = "r_done"
    /\ hasRegularGrid /\ hasRenderingSettings
    /\ \A q \in Channels : queues[q] = <<>>

\* C39: render terminates: for every pixel count and chunk size of at least 1,
\* on a device that completes every kernel and every blocking read, a render
\* that was entered returns after finitely many iterations of its loop, with
\* the renderer still configured.
C39_RenderTerminates == InsideRender ~> RenderReturned

\* render has returned from a frame of three chunks or more
C39_Witness == RenderReturned /\ Len(issued) >= 3 /\ Len(reads) = Len(issued)
====
